---- MODULE Spec2Model ----
(***************************************************************************)
(* Model of TaxpayerIdentificationNumber (src/src/tax_id.rs): the stored   *)
(* text, the weight table RATIO, get_digit, check_digit, check_len10,      *)
(* check_len12 and the guards and length dispatch of is_valid.             *)
(*                                                                         *)
(* A text is a sequence of chars; a char is its Unicode scalar value, so   *)
(* that char::to_digit and the UTF-8 byte length String::len are computed  *)
(* rather than assumed.  An Option is a sequence of length 0 or 1.         *)
(***************************************************************************)
EXTENDS Integers, Sequences, FiniteSets

VARIABLES raw, edits, value, ratio, pc, result, prevResult, calls,
          emptyChecked, digitsChecked, computed, reads

vars == <<raw, edits, value, ratio, pc, result, prevResult, calls,
          emptyChecked, digitsChecked, computed, reads>>

(* ---------------------------- bounds ---------------------------------- *)
\* number of characters of a base text that an input may replace
MaxEdits == 1
\* number of is_valid calls made on one identifier value
MaxCalls == 2

(* ------------------------ Option and Result --------------------------- *)
None == <<>>
Some(x) == <<x>>

Ok(b) == [kind |-> "Ok", val |-> b, err |-> "none", length |-> 0]
ErrEmpty == [kind |-> "Err", val |-> FALSE, err |-> "Empty", length |-> 0]
ErrExpectedNumbersOnly ==
    [kind |-> "Err", val |-> FALSE, err |-> "ExpectedNumbersOnly", length |-> 0]
ErrWrongLength(n) ==
    [kind |-> "Err", val |-> FALSE, err |-> "WrongLength", length |-> n]
\* result of a call that has not returned yet
NoResult == [kind |-> "None", val |-> FALSE, err |-> "none", length |-> 0]

(* --------------------------- characters ------------------------------- *)
\* to_digit with radix 16 instead of 10
to_digit_radix16(ch) ==
    IF ch >= 48 /\ ch <= 57 THEN Some(ch - 48)
    ELSE IF ch >= 97 /\ ch <= 102 THEN Some(ch - 87)
    ELSE None

\* char::to_digit(10): Some(0..9) for '0'..'9' (U+0030..U+0039), else None
to_digit(ch) == IF ch >= 48 /\ ch <= 57 THEN Some(ch - 48) ELSE None

\* char::len_utf8: number of bytes of the UTF-8 encoding of ch
len_utf8(ch) ==
    IF ch < 128 THEN 1 ELSE IF ch < 2048 THEN 2 ELSE IF ch < 65536 THEN 3 ELSE 4

RECURSIVE len(_)
\* String::len: the length of the text in bytes
len(s) == IF s = <<>> THEN 0 ELSE len_utf8(Head(s)) + len(Tail(s))

\* String::is_empty
is_empty(s) == len(s) = 0

\* input.chars().nth(n), n zero-based
chars_nth(input, n) == IF n < Len(input) THEN Some(input[n + 1]) ELSE None

(* --------------------------- tax_id.rs -------------------------------- *)
RATIO == <<3, 7, 2, 4, 10, 3, 5, 9, 4, 6, 8>>

\* &RATIO[from..], from zero-based
RatioFrom(r, from) == SubSeq(r, from + 1, Len(r))

\* TRUE when get_digit(input, n) takes one of its two `None => 0` arms
get_digit_fallback(input, n) ==
    LET ch == chars_nth(input, n)
    IN  IF ch = None THEN TRUE ELSE to_digit(ch[1]) = None

get_digit(input, n) ==
    LET ch == chars_nth(input, n)
    IN  IF ch = None THEN 0
        ELSE LET d == to_digit(ch[1])
             IN  IF d = None THEN 0 ELSE d[1]

RECURSIVE check_digit_sum(_, _, _)
\* the loop of check_digit: sum of get_digit(value, i) * r[i] for i in from..r.len()-1
check_digit_sum(v, r, i) ==
    IF i >= Len(r) THEN 0
    ELSE get_digit(v, i) * r[i + 1] + check_digit_sum(v, r, i + 1)

\* check_digit, with the positions it hands to get_digit
check_digit(v, r) ==
    [val   |-> (check_digit_sum(v, r, 0) % 11) % 10,
     reads |-> 0 .. (Len(r) - 1)]

\* check_len12 with || in place of &&
check_len12_either(v, r) ==
    LET calc_num1 == check_digit(v, RatioFrom(r, 1))
        calc_num2 == check_digit(v, RatioFrom(r, 0))
        first == calc_num1.val = get_digit(v, 10)
    IN  [val   |-> first \/ calc_num2.val = get_digit(v, 11),
         reads |-> calc_num1.reads \cup calc_num2.reads \cup {10}
                   \cup (IF first THEN {} ELSE {11})]

\* check_len12 with &RATIO[1..] taken for the second check digit too
check_len12_slice1(v, r) ==
    LET calc_num1 == check_digit(v, RatioFrom(r, 1))
        calc_num2 == check_digit(v, RatioFrom(r, 1))
        first == calc_num1.val = get_digit(v, 10)
    IN  [val   |-> first /\ calc_num2.val = get_digit(v, 11),
         reads |-> calc_num1.reads \cup calc_num2.reads \cup {10}
                   \cup (IF first THEN {11} ELSE {})]

check_len12(v, r) ==
    LET calc_num1 == check_digit(v, RatioFrom(r, 1))
        calc_num2 == check_digit(v, RatioFrom(r, 0))
        first == calc_num1.val = get_digit(v, 10)
    IN  [val   |-> first /\ calc_num2.val = get_digit(v, 11),
         reads |-> calc_num1.reads \cup calc_num2.reads \cup {10}
                   \cup (IF first THEN {11} ELSE {})]

\* check_len10 with &RATIO[1..] in place of &RATIO[2..]
check_len10_slice1(v, r) ==
    LET calc_num == check_digit(v, RatioFrom(r, 1))
    IN  [val   |-> calc_num.val = get_digit(v, 9),
         reads |-> calc_num.reads \cup {9}]

\* check_len10 comparing with get_digit(&self.value, 10)
check_len10_digit10(v, r) ==
    LET calc_num == check_digit(v, RatioFrom(r, 2))
    IN  [val   |-> calc_num.val = get_digit(v, 10),
         reads |-> calc_num.reads \cup {10}]

check_len10(v, r) ==
    LET calc_num == check_digit(v, RatioFrom(r, 2))
    IN  [val   |-> calc_num.val = get_digit(v, 9),
         reads |-> calc_num.reads \cup {9}]

\* super::only_digits: every char of the text is a decimal digit
only_digits(s) == \A i \in 1 .. Len(s) : to_digit(s[i]) # None

\* match_len with the hint of length 11 set to the nearer length 10
match_len_hint11(v, r) ==
    LET n == len(v)
    IN  IF n = 12 THEN Ok(check_len12(v, r).val)
        ELSE IF n = 10 THEN Ok(check_len10(v, r).val)
        ELSE IF n >= 1 /\ n <= 9 THEN ErrWrongLength(10)
        ELSE IF n = 11 THEN ErrWrongLength(10)
        ELSE ErrWrongLength(12)

\* the match on self.value.len() of is_valid
match_len(v, r) ==
    LET n == len(v)
    IN  IF n = 12 THEN Ok(check_len12(v, r).val)
        ELSE IF n = 10 THEN Ok(check_len10(v, r).val)
        ELSE IF n >= 1 /\ n <= 9 THEN ErrWrongLength(10)
        ELSE IF n = 11 THEN ErrWrongLength(12)
        ELSE ErrWrongLength(12)

\* is_valid as a function of the stored text and the table
is_valid(v, r) ==
    IF is_empty(v) THEN ErrEmpty
    ELSE IF ~only_digits(v) THEN ErrExpectedNumbersOnly
    ELSE match_len(v, r)

(* ----------------------------- inputs --------------------------------- *)
\* a text of ASCII digits from the digits' values
Digits(ds) == [i \in 1 .. Len(ds) |-> ds[i] + 48]

\* the chars an input is built from: '0'..'9', 'f' and CYRILLIC SMALL ZHE
Alphabet == (48 .. 57) \cup {102, 1078}

\* the texts of the unit tests, and texts of the lengths they leave out
BaseTexts ==
    { <<>>,
      Digits(<<0,0,0,0,0,0,0,0,0>>),
      Digits(<<0,0,0,0,0,0,0,0,0,0>>),
      Digits(<<0,0,0,0,0,0,0,0,0,0,0>>),
      Digits(<<0,0,0,0,0,0,0,0,0,0,0,0>>),
      Digits(<<7,7,2,0,5,3>>),
      Digits(<<7,8,2,7,0,0,4,5,2,6>>),
      Digits(<<7,8,2,7,0,0,4,5,2,7>>),
      Digits(<<7,6,0,3,0,7,0,7,3,2,1,4>>),
      Digits(<<7,6,0,3,0,7,0,7,3,2,1,7>>),
      <<55, 56, 50, 102, 48, 48, 52, 53, 50, 54>>,
      Digits(<<5>>),
      Digits(<<0,0,0,0,0,0,0,0,0,0,0,0,0>>),
      <<1078, 1078, 1078, 1078, 1078>>,
      <<1078, 1078, 1078, 1078, 1078, 1078>> }

(* ------------------------- the state machine -------------------------- *)
\* the caller holds the raw text of a unit test; no identifier exists yet
Init ==
    /\ raw \in BaseTexts
    /\ edits = 0
    /\ value = <<>>
    /\ ratio = RATIO
    /\ pc = "input"
    /\ result = NoResult
    /\ prevResult = NoResult
    /\ calls = 0
    /\ emptyChecked = FALSE
    /\ digitsChecked = FALSE
    /\ computed = FALSE
    /\ reads = {}

\* the caller replaces one char of the raw text before handing it over
EditInput ==
    /\ pc = "input"
    /\ edits < MaxEdits
    /\ \E i \in 1 .. Len(raw), c \in Alphabet :
          /\ c # raw[i]
          /\ raw' = [raw EXCEPT ![i] = c]
    /\ edits' = edits + 1
    /\ UNCHANGED <<value, ratio, pc, result, prevResult, calls, emptyChecked,
                   digitsChecked, computed, reads>>

\* TaxpayerIdentificationNumber::new(input) / From<String>::from(other)
New ==
    /\ pc = "input"
    /\ value' = raw
    /\ pc' = "ready"
    /\ edits' = 0
    /\ UNCHANGED <<raw, ratio, result, prevResult, calls, emptyChecked,
                   digitsChecked, computed, reads>>

\* the caller invokes is_valid on the identifier value
Call ==
    /\ pc = "ready"
    /\ calls < MaxCalls
    /\ pc' = "check_empty"
    /\ calls' = calls + 1
    /\ prevResult' = result
    /\ result' = NoResult
    /\ emptyChecked' = FALSE
    /\ digitsChecked' = FALSE
    /\ computed' = FALSE
    /\ reads' = {}
    /\ UNCHANGED <<raw, edits, value, ratio>>

\* CheckEmpty going straight to the length dispatch, the digit guard left out
CheckEmptySkipDigits ==
    /\ pc = "check_empty"
    /\ IF is_empty(value)
       THEN /\ result' = ErrEmpty
            /\ pc' = "ready"
            /\ UNCHANGED emptyChecked
       ELSE /\ emptyChecked' = TRUE
            /\ pc' = "match_len"
            /\ UNCHANGED result
    /\ UNCHANGED <<raw, edits, value, ratio, prevResult, calls, digitsChecked, computed, reads>>

\* if self.value.is_empty() { return Err(Error::Empty); }
CheckEmpty ==
    /\ pc = "check_empty"
    /\ IF is_empty(value)
       THEN /\ result' = ErrEmpty
            /\ pc' = "ready"
            /\ UNCHANGED emptyChecked
       ELSE /\ emptyChecked' = TRUE
            /\ pc' = "check_digits"
            /\ UNCHANGED result
    /\ UNCHANGED <<raw, edits, value, ratio, prevResult, calls, digitsChecked, computed, reads>>

\* CheckOnlyDigits with the unsupported lengths reported first
CheckOnlyDigitsLengthFirst ==
    /\ pc = "check_digits"
    /\ IF len(value) # 10 /\ len(value) # 12
       THEN /\ result' = match_len(value, ratio)
            /\ pc' = "ready"
            /\ UNCHANGED digitsChecked
       ELSE IF ~only_digits(value)
       THEN /\ result' = ErrExpectedNumbersOnly
            /\ pc' = "ready"
            /\ UNCHANGED digitsChecked
       ELSE /\ digitsChecked' = TRUE
            /\ pc' = "match_len"
            /\ UNCHANGED result
    /\ UNCHANGED <<raw, edits, value, ratio, prevResult, calls, emptyChecked, computed, reads>>

\* if !super::only_digits(&self.value) { return Err(Error::ExpectedNumbersOnly); }
CheckOnlyDigits ==
    /\ pc = "check_digits"
    /\ IF ~only_digits(value)
       THEN /\ result' = ErrExpectedNumbersOnly
            /\ pc' = "ready"
            /\ UNCHANGED digitsChecked
       ELSE /\ digitsChecked' = TRUE
            /\ pc' = "match_len"
            /\ UNCHANGED result
    /\ UNCHANGED <<raw, edits, value, ratio, prevResult, calls, emptyChecked, computed, reads>>

\* MatchLen with the arm 1...10 in place of 1...9, tried before the arm 10
MatchLenRange10 ==
    /\ pc = "match_len"
    /\ LET n == len(value)
       IN  IF n = 12
           THEN pc' = "check_len12" /\ UNCHANGED result
           ELSE IF n >= 1 /\ n <= 10
           THEN pc' = "ready" /\ result' = ErrWrongLength(10)
           ELSE pc' = "ready" /\ result' = match_len(value, ratio)
    /\ UNCHANGED <<raw, edits, value, ratio, prevResult, calls, emptyChecked, digitsChecked,
                   computed, reads>>

\* match self.value.len() { 12 => .., 10 => .., 1...9 => .., 11 => .., _ => .. }
MatchLen ==
    /\ pc = "match_len"
    /\ LET n == len(value)
       IN  IF n = 12
           THEN pc' = "check_len12" /\ UNCHANGED result
           ELSE IF n = 10
           THEN pc' = "check_len10" /\ UNCHANGED result
           ELSE pc' = "ready" /\ result' = match_len(value, ratio)
    /\ UNCHANGED <<raw, edits, value, ratio, prevResult, calls, emptyChecked, digitsChecked,
                   computed, reads>>

\* the records of the get_digit calls made on positions ps of the text
ReadsOf(v, ps) == { [n |-> p, fallback |-> get_digit_fallback(v, p)] : p \in ps }

\* CheckLen12 taking the last char off the stored text
CheckLen12Pop ==
    /\ pc = "check_len12"
    /\ LET c == check_len12(value, ratio)
       IN  /\ result' = Ok(c.val)
           /\ reads' = ReadsOf(value, c.reads)
    /\ value' = SubSeq(value, 1, Len(value) - 1)
    /\ computed' = TRUE
    /\ pc' = "ready"
    /\ UNCHANGED <<raw, edits, ratio, prevResult, calls, emptyChecked, digitsChecked>>

\* 12 => Ok(self.check_len12())
CheckLen12 ==
    /\ pc = "check_len12"
    /\ LET c == check_len12(value, ratio)
       IN  /\ result' = Ok(c.val)
           /\ reads' = ReadsOf(value, c.reads)
    /\ computed' = TRUE
    /\ pc' = "ready"
    /\ UNCHANGED <<raw, edits, value, ratio, prevResult, calls, emptyChecked, digitsChecked>>

\* 10 => Ok(self.check_len10())
CheckLen10 ==
    /\ pc = "check_len10"
    /\ LET c == check_len10(value, ratio)
       IN  /\ result' = Ok(c.val)
           /\ reads' = ReadsOf(value, c.reads)
    /\ computed' = TRUE
    /\ pc' = "ready"
    /\ UNCHANGED <<raw, edits, value, ratio, prevResult, calls, emptyChecked, digitsChecked>>

Next ==
    \/ EditInput
    \/ New
    \/ Call
    \/ CheckEmpty
    \/ CheckOnlyDigits
    \/ MatchLen
    \/ CheckLen12
    \/ CheckLen10

Spec == Init /\ [][Next]_vars

TypeOK ==
    /\ Len(value) <= Len(raw)
    /\ pc \in {"input", "ready", "check_empty", "check_digits", "match_len",
               "check_len12", "check_len10"}
    /\ calls \in 0 .. MaxCalls
    /\ edits \in 0 .. MaxEdits
    /\ result.kind \in {"None", "Ok", "Err"}

(* ------------------------- the properties ----------------------------- *)
\* an is_valid call on the identifier value has returned
Returned == pc = "ready" /\ calls > 0

\* the text consists of the chars '0'..'9' only
DigitOnly(s) == \A i \in 1 .. Len(s) : s[i] \in 48 .. 57

\* the decimal digit at zero-based position i of a digit-only text
D(s, i) == s[i + 1] - 48

\* s with its last char replaced by c
ReplaceLast(s, c) == [s EXCEPT ![Len(s)] = c]

\* C1: for a text of exactly 10 decimal digits is_valid returns Ok(b), where
\* b holds iff (2*d0 + 4*d1 + 10*d2 + 3*d3 + 5*d4 + 9*d5 + 4*d6 + 6*d7 + 8*d8)
\* mod 11 mod 10 equals d9.
C1_Len10Checksum ==
    (Returned /\ Len(value) = 10 /\ DigitOnly(value)) =>
        result = Ok(((2 * D(value, 0) + 4 * D(value, 1) + 10 * D(value, 2)
                      + 3 * D(value, 3) + 5 * D(value, 4) + 9 * D(value, 5)
                      + 4 * D(value, 6) + 6 * D(value, 7) + 8 * D(value, 8))
                     % 11) % 10 = D(value, 9))

C1_Witness ==
    /\ Returned /\ Len(value) = 10 /\ DigitOnly(value)
    /\ D(value, 0) # 0
    /\ result = Ok(TRUE)

\* C2: for a text of exactly 12 decimal digits is_valid returns Ok(b), where
\* b holds iff check digit A (weights RATIO[1..10] on d0..d9) equals d10 and
\* check digit B (weights RATIO[0..10] on d0..d10) equals d11.
C2_Len12Checksum ==
    (Returned /\ Len(value) = 12 /\ DigitOnly(value)) =>
        LET a == ((7 * D(value, 0) + 2 * D(value, 1) + 4 * D(value, 2)
                   + 10 * D(value, 3) + 3 * D(value, 4) + 5 * D(value, 5)
                   + 9 * D(value, 6) + 4 * D(value, 7) + 6 * D(value, 8)
                   + 8 * D(value, 9)) % 11) % 10
            b == ((3 * D(value, 0) + 7 * D(value, 1) + 2 * D(value, 2)
                   + 4 * D(value, 3) + 10 * D(value, 4) + 3 * D(value, 5)
                   + 5 * D(value, 6) + 9 * D(value, 7) + 4 * D(value, 8)
                   + 6 * D(value, 9) + 8 * D(value, 10)) % 11) % 10
        IN  result = Ok(a = D(value, 10) /\ b = D(value, 11))

C2_Witness ==
    /\ Returned /\ Len(value) = 12 /\ DigitOnly(value)
    /\ D(value, 0) # 0
    /\ result = Ok(TRUE)

\* C3: the empty text yields Err(Empty); a non-empty text with a char that is
\* not a decimal digit yields Err(ExpectedNumbersOnly) whatever its length.
C3_GuardPrecedence ==
    Returned =>
        /\ (value = <<>> => result = ErrEmpty)
        /\ ((value # <<>> /\ ~DigitOnly(value)) => result = ErrExpectedNumbersOnly)

C3_Witness ==
    /\ Returned
    /\ ~DigitOnly(value)
    /\ len(value) \notin {10, 12}
    /\ result = ErrExpectedNumbersOnly

\* C4: a non-empty digit-only text of a length other than 10 and 12 yields
\* Err(WrongLength) with the hint 10 for the lengths 1..9 and the hint 12 for
\* the length 11 and the lengths above 12.
C4_WrongLengthHint ==
    (Returned /\ value # <<>> /\ DigitOnly(value) /\ Len(value) \notin {10, 12}) =>
        result = ErrWrongLength(IF Len(value) <= 9 THEN 10 ELSE 12)

C4_Witness ==
    /\ Returned /\ DigitOnly(value)
    /\ Len(value) = 11
    /\ result = ErrWrongLength(12)

\* C5: a digit-only text of length 10 or 12 yields Ok(_), never an error; a
\* checksum mismatch is Ok(false).
C5_ChecksumNeverErr ==
    (Returned /\ DigitOnly(value) /\ Len(value) \in {10, 12}) =>
        result \in {Ok(TRUE), Ok(FALSE)}

C5_Witness ==
    /\ Returned /\ DigitOnly(value)
    /\ Len(value) = 10
    /\ result = Ok(FALSE)

\* C6: when is_valid returned Ok(true) for a 10-digit or 12-digit text,
\* the text with only its last digit replaced by any other decimal digit
\* yields Ok(false), not an error.
C6_LastDigitPerturbation ==
    (Returned /\ result = Ok(TRUE)) =>
        \A c \in (48 .. 57) \ {value[Len(value)]} :
            is_valid(ReplaceLast(value, c), ratio) = Ok(FALSE)

C6_Witness ==
    /\ Returned /\ result = Ok(TRUE)
    /\ Len(value) = 12
    /\ D(value, 11) # 0

\* C7: every call of is_valid on the same identifier value returns the
\* result of the call before it, and no step of a call changes the stored
\* text or the weight table.
C7_Idempotence ==
    /\ []((Returned /\ calls >= 2) => result = prevResult)
    /\ [][pc # "input" => (value' = value /\ ratio' = ratio)]_vars

C7_Witness ==
    /\ Returned /\ calls >= 2
    /\ result = Ok(TRUE)
    /\ prevResult = Ok(TRUE)
    /\ ratio = RATIO

\* C8: the checksum computation starts only after the non-empty check and
\* the digit-only check have passed, and a call that returns an error has
\* computed no checksum.
C8_ChecksumAfterGuards ==
    /\ (pc \in {"check_len10", "check_len12"} \/ computed) =>
           /\ emptyChecked /\ digitsChecked
           /\ value # <<>> /\ DigitOnly(value)
    /\ (Returned /\ result.kind = "Err") => (~computed /\ reads = {})

C8_Witness ==
    /\ pc = "check_len10"
    /\ emptyChecked /\ digitsChecked
    /\ ~computed

\* C9: get_digit(text, n) is the decimal value of the char at zero-based
\* position n when that char is a decimal digit, and 0 when n is beyond the
\* end of the text or the char is not a decimal digit.
C9_GetDigitTotal ==
    pc # "input" =>
        \A n \in 0 .. (Len(value) + 1) :
            /\ get_digit(value, n) \in 0 .. 9
            /\ get_digit(value, n) =
                   (IF n < Len(value) /\ value[n + 1] \in 48 .. 57
                    THEN value[n + 1] - 48
                    ELSE 0)

C9_Witness ==
    /\ pc # "input"
    /\ \E n \in 0 .. (Len(value) - 1) :
           value[n + 1] \notin 48 .. 57 /\ get_digit(value, n) = 0
    /\ \E n \in 0 .. (Len(value) - 1) :
           value[n + 1] \in 49 .. 57 /\ get_digit(value, n) = value[n + 1] - 48
    /\ get_digit(value, Len(value)) = 0

\* C10: in a checksum branch every get_digit call reads a position inside the
\* text that holds a decimal digit, so neither fallback arm is taken: the
\* positions are 0..9 for length 10 and lie in 0..11 for length 12.
C10_NoFallbackInChecksum ==
    computed =>
        /\ reads # {}
        /\ \A rd \in reads :
              /\ rd.n \in 0 .. (Len(value) - 1)
              /\ value[rd.n + 1] \in 48 .. 57
              /\ ~rd.fallback
        /\ (Len(value) = 10 => { rd.n : rd \in reads } = 0 .. 9)
        /\ (Len(value) = 12 => (0 .. 10) \subseteq { rd.n : rd \in reads })

C10_Witness ==
    /\ computed
    /\ Len(value) = 12
    /\ \E rd \in reads : rd.n = 11 /\ ~rd.fallback

====
